---- MODULE Spec2Model ----
(***************************************************************************)
(* chrono-calendar, src/server.js: the PostgreSQL-backed reminder server.  *)
(* One Node.js process: request handlers, the startup Recovery pass        *)
(* (scheduleAllPending) and the setTimeout callbacks of scheduleReminder   *)
(* run on one event loop and interleave at every await.  Each action below *)
(* is one run-to-completion piece of a handler: from its start, or from    *)
(* the resumption after an await, to its next await or its end.            *)
(*                                                                         *)
(* Time is counted in hours (reminder_hours * 3_600_000 ms is one unit per *)
(* hour); the clock never goes back, and delays stay within the range      *)
(* setTimeout accepts.  A Timeout fires at or after its delay, so time may *)
(* pass a fire time before the callback runs.                              *)
(*                                                                         *)
(* The file-backed variant of src/server.js (events.json and an hourly     *)
(* cron callback) is the second state machine, SpecFile: its handlers are  *)
(* synchronous, its cron callback awaits each send inside its loop.        *)
(***************************************************************************)
EXTENDS Integers, FiniteSets, Sequences, TLC

\* ---------------------------------------------------------------- bounds
MaxEvents == 2
MaxTime == 2
MaxRestarts == 1

\* ------------------------------------------------------ program constants
\* reminderHours || 24
DEFAULT_REMINDER_HOURS == 24

\* The maximum number of delivery attempts of the retry policy.
MAX_ATTEMPTS == 10

\* ----------------------------------------------------------------- inputs
Ids == 1..MaxEvents
Handles == 1..(2 * MaxEvents)
Datetimes == {25}
HoursGiven == {0, 23}

\* The body of POST /events, as far as scheduling reads it.  given = FALSE
\* is a body without reminderHours (undefined).
Bodies ==
  { [datetime |-> d, given |-> TRUE, reminderHours |-> h] :
      d \in Datetimes, h \in HoursGiven }
  \cup { [datetime |-> d, given |-> FALSE, reminderHours |-> 0] : d \in Datetimes }

VARIABLES
  now,          \* new Date() / Date.now(), in hours
  phase,        \* the process: "initdb", "running", "failed"
  listening,    \* app.listen has been called
  restarts,     \* process restarts so far
  db,           \* table events: id -> row
  nextId,       \* the next value of Date.now() taken as an id
  timers,       \* const timers = {}: id -> Timeout handle
  timeouts,     \* the runtime's active (unfired, uncleared) Timeouts
  pass,         \* scheduleAllPending: its position and the rows it got
  creq,         \* POST /events handlers awaiting their INSERT
  dreq,         \* DELETE /events/:id handlers, per id
  sending,      \* id -> timer callbacks awaiting resend.emails.send
  updating,     \* id -> timer callbacks awaiting the UPDATE
  attempts,     \* history: id -> Sender calls in this process lifetime
  succeeded,    \* history: id -> times the Sender reported success
  delEarly,     \* history: ids whose row was deleted before their fire time
  delInFlight,  \* history: ids whose row was deleted while their send awaited
  logged,       \* id -> the last line the timer callback logged for it
  atRestart     \* history: the ids in the table when the process last started

vars ==
  << now, phase, listening, restarts, db, nextId, timers, timeouts, pass, creq,
     dreq, sending, updating, attempts, succeeded, delEarly, delInFlight,
     logged, atRestart >>

volatile == << timers, timeouts, pass, creq, dreq, sending, updating >>
history ==
  << attempts, succeeded, delEarly, delInFlight, logged, atRestart >>

\* ---------------------------------------------------------------- helpers
\* reminderHours || 24: undefined and 0 are both falsy.
OrDefault(body) ==
  IF body.given /\ body.reminderHours # 0
    THEN body.reminderHours
    ELSE DEFAULT_REMINDER_HOURS

\* sendAt = new Date(ev.datetime).getTime() - ev.reminder_hours * 3_600_000
SendAt(ev) == ev.datetime - ev.reminder_hours

Without(f, k) == [i \in DOMAIN f \ {k} |-> f[i]]

With(f, k, v) == [i \in DOMAIN f \cup {k} |-> IF i = k THEN v ELSE f[i]]

Range(f) == { f[i] : i \in DOMAIN f }

\* clearTimeout(handle): no effect on a Timeout that fired or was cleared.
clearTimeout(active, handle) == { t \in active : t.handle # handle }

\* A new Timeout object: distinct from every Timeout still referenced.
NewHandle(reg) ==
  LET used == Range(reg.timers) \cup { t.handle : t \in reg.timeouts }
  IN CHOOSE h \in Handles \ used : \A g \in Handles \ used : h <= g

\* scheduleReminder without "if (timers[ev.id]) clearTimeout(timers[ev.id])".
scheduleReminder_NoClear(reg, ev) ==
  LET msUntilSend == SendAt(ev) - now
      h == NewHandle(reg)
  IN IF msUntilSend <= 0
       THEN reg
       ELSE [ timers |-> With(reg.timers, ev.id, h),
              timeouts |-> reg.timeouts \cup
                { [handle |-> h, id |-> ev.id, fireAt |-> now + msUntilSend] } ]

\* scheduleReminder(ev), on the timer state reg = [timers, timeouts].
scheduleReminder(reg, ev) ==
  LET msUntilSend == SendAt(ev) - now
      cleared == IF ev.id \in DOMAIN reg.timers
                   THEN clearTimeout(reg.timeouts, reg.timers[ev.id])
                   ELSE reg.timeouts
      h == NewHandle([timers |-> reg.timers, timeouts |-> cleared])
  IN IF msUntilSend <= 0
       THEN reg
       ELSE [ timers |-> With(reg.timers, ev.id, h),
              timeouts |-> cleared \cup
                { [handle |-> h, id |-> ev.id, fireAt |-> now + msUntilSend] } ]

\* A loop that leaves after its first row.
scheduleRows_OnlyFirst(reg, rows) ==
  IF rows = {}
    THEN reg
    ELSE scheduleReminder(reg, CHOOSE r \in rows : \A q \in rows : r.id <= q.id)

\* for (const row of result.rows) scheduleReminder(row)
RECURSIVE scheduleRows(_, _)
scheduleRows(reg, rows) ==
  IF rows = {}
    THEN reg
    ELSE LET row == CHOOSE r \in rows : \A q \in rows : r.id <= q.id
         IN scheduleRows(scheduleReminder(reg, row), rows \ {row})

Registry == [timers |-> timers, timeouts |-> timeouts]

NoPass == [pc |-> "none", rows |-> {}]

NoDelete == "none"

\* ------------------------------------------- the file-backed variant
\* reminderHours of a request body of the file-backed variant, in hours.
FileHours == {23, 24}

\* req.body of POST /events of the file-backed variant
FileBodies == [ datetime : Datetimes, reminderHours : FileHours ]

VARIABLES
  events,       \* let events: the current array, as the sequence of the ids
                \*   of the objects it holds
  objs,         \* the event objects of this process, by id: [datetime,
                \*   reminderHours, reminded]; arrays share them by reference
  eventsJson,   \* the contents of events.json: a sequence of records
  cronNow,      \* the clock of the file-backed process, in hours
  ticks,        \* the cron callbacks awaiting a send: [start, live, arr, i,
                \*   changed]; live: its array is still the current events
  fileNextId,   \* the next fresh Date.now() id
  fileRestarts, \* how many times the file-backed process was restarted
  fileSucceeded \* history: id -> sends that resolved

fileVars ==
  << events, objs, eventsJson, cronNow, ticks, fileNextId, fileRestarts,
     fileSucceeded >>

\* JSON.stringify(events, null, 2)
stringify(arr, heap) ==
  [ k \in 1..Len(arr) |->
      [ id |-> arr[k],
        datetime |-> heap[arr[k]].datetime,
        reminderHours |-> heap[arr[k]].reminderHours,
        reminded |-> heap[arr[k]].reminded ] ]

\* JSON.parse(fs.readFileSync('events.json', 'utf8')): the array
parseArray(text) == [ k \in 1..Len(text) |-> text[k].id ]

\* JSON.parse(fs.readFileSync('events.json', 'utf8')): its objects
parseObjects(text) ==
  [ id \in { text[k].id : k \in 1..Len(text) } |->
      LET r == text[CHOOSE k \in 1..Len(text) : text[k].id = id]
      IN  [ datetime |-> r.datetime,
            reminderHours |-> r.reminderHours,
            reminded |-> r.reminded ] ]

\* const save = () => fs.writeFileSync('events.json', JSON.stringify(events))
save(arr, heap) == stringify(arr, heap)

\* events.filter(e => e.id != req.params.id)
filter(arr, id) == SelectSeq(arr, LAMBDA e : e # id)

\* hoursLeft > 0 && hoursLeft <= ev.reminderHours
Due(ev, at) ==
  LET hoursLeft == ev.datetime - at
  IN  hoursLeft > 0 /\ hoursLeft <= ev.reminderHours

\* The loop of the cron callback from index from on: the index of the first
\* element that is not reminded and due, where the callback awaits its send;
\* 0 when the loop runs to its end.
NextDue(arr, from, at, heap) ==
  LET c == { j \in from..Len(arr) :
               ~heap[arr[j]].reminded /\ Due(heap[arr[j]], at) }
  IN  IF c = {} THEN 0 ELSE CHOOSE j \in c : \A k \in c : j <= k

\* The array a cron callback iterates over.
ArrOf(tk) == IF tk.live THEN events ELSE tk.arr

\* The file-backed process after its first start: events.json is absent and
\* the catch leaves events = [].
FileInit ==
  /\ events = << >>
  /\ objs = << >>
  /\ eventsJson = << >>
  /\ cronNow = 0
  /\ ticks = {}
  /\ fileNextId = 1
  /\ fileRestarts = 0
  /\ fileSucceeded = [i \in Ids |-> 0]

\* ------------------------------------------------------------------- Init
Init ==
  /\ FileInit
  /\ now = 0
  /\ phase = "initdb"
  /\ listening = FALSE
  /\ restarts = 0
  /\ db = << >>
  /\ nextId = 1
  /\ timers = << >>
  /\ timeouts = {}
  /\ pass = NoPass
  /\ creq = {}
  /\ dreq = [i \in Ids |-> NoDelete]
  /\ sending = [i \in Ids |-> 0]
  /\ updating = [i \in Ids |-> 0]
  /\ attempts = [i \in Ids |-> 0]
  /\ succeeded = [i \in Ids |-> 0]
  /\ delEarly = {}
  /\ delInFlight = {}
  /\ logged = [i \in Ids |-> "none"]
  /\ atRestart = {}

\* ---------------------------------------------------------------- startup
\* initDB: CREATE TABLE succeeded; scheduleAllPending() is started and not
\* awaited, so initDB resolves and .then(app.listen) runs while the SELECT
\* is still in flight.
InitDBDone ==
  /\ phase = "initdb"
  /\ UNCHANGED fileVars
  /\ phase' = "running"
  /\ pass' = [pc |-> "query", rows |-> {}]
  /\ listening' = TRUE
  /\ UNCHANGED << now, restarts, db, nextId, timers, timeouts, creq, dreq,
                  sending, updating >>
  /\ UNCHANGED history

\* initDB: CREATE TABLE failed; initDB rejects and .then never runs.
InitDBFail ==
  /\ phase = "initdb"
  /\ UNCHANGED fileVars
  /\ phase' = "failed"
  /\ UNCHANGED << now, listening, restarts, db, nextId >>
  /\ UNCHANGED volatile
  /\ UNCHANGED history

\* scheduleAllPending: the SELECT ... WHERE reminded = false is answered.
PassQueryOk ==
  /\ pass.pc = "query"
  /\ UNCHANGED fileVars
  /\ pass' = [ pc |-> "rows",
               rows |-> { [ id |-> i, datetime |-> db[i].datetime,
                            reminder_hours |-> db[i].reminder_hours ] :
                          i \in { j \in DOMAIN db : ~db[j].reminded } } ]
  /\ UNCHANGED << now, phase, listening, restarts, db, nextId, timers, timeouts,
                  creq, dreq, sending, updating >>
  /\ UNCHANGED history

\* scheduleAllPending: the SELECT fails; the promise nobody awaits rejects.
\* Whether the runtime then only warns or ends the process depends on its
\* version; a process that ends here is this step followed by no further
\* step of it, or by Restart.
PassQueryFail ==
  /\ pass.pc = "query"
  /\ UNCHANGED fileVars
  /\ pass' = [pc |-> "failed", rows |-> {}]
  /\ UNCHANGED << now, phase, listening, restarts, db, nextId, timers, timeouts,
                  creq, dreq, sending, updating >>
  /\ UNCHANGED history

\* scheduleAllPending after its await: the loop over result.rows.
PassSchedule ==
  /\ pass.pc = "rows"
  /\ UNCHANGED fileVars
  /\ LET reg == scheduleRows(Registry, pass.rows)
     IN /\ timers' = reg.timers
        /\ timeouts' = reg.timeouts
  /\ pass' = [pc |-> "done", rows |-> {}]
  /\ UNCHANGED << now, phase, listening, restarts, db, nextId, creq, dreq,
                  sending, updating >>
  /\ UNCHANGED history

\* The process stops (a crash, a deploy) and is started again: everything in
\* memory is lost, the table and the clock are not.
Restart ==
  /\ restarts < MaxRestarts
  /\ UNCHANGED fileVars
  /\ restarts' = restarts + 1
  /\ phase' = "initdb"
  /\ listening' = FALSE
  /\ timers' = << >>
  /\ timeouts' = {}
  /\ pass' = NoPass
  /\ creq' = {}
  /\ dreq' = [i \in Ids |-> NoDelete]
  /\ sending' = [i \in Ids |-> 0]
  /\ updating' = [i \in Ids |-> 0]
  /\ attempts' = [i \in Ids |-> 0]
  /\ logged' = [i \in Ids |-> "none"]
  /\ atRestart' = DOMAIN db
  /\ UNCHANGED << now, db, nextId, succeeded, delEarly, delInFlight >>

\* Wall-clock time passes.
Tick ==
  /\ now < MaxTime
  /\ UNCHANGED fileVars
  /\ now' = now + 1
  /\ UNCHANGED << phase, listening, restarts, db, nextId >>
  /\ UNCHANGED volatile
  /\ UNCHANGED history

\* ---------------------------------------------------------- POST /events
\* An INSERT that writes reminded = true.
InsertRow_Reminded(body) ==
  [ datetime |-> body.datetime,
    reminder_hours |-> OrDefault(body),
    reminded |-> TRUE ]

\* The row the INSERT writes: (id, ..., datetime, reminderHours || 24, ..., false)
InsertRow(body) ==
  [ datetime |-> body.datetime,
    reminder_hours |-> OrDefault(body),
    reminded |-> FALSE ]

\* const ev = { id, ..., datetime, reminder_hours: reminderHours || 24, ... }
EvOf(id, body) ==
  [id |-> id, datetime |-> body.datetime, reminder_hours |-> OrDefault(body)]

\* res.json(...) in the try, res.status(500) in the catch.
Status(ok) == IF ok THEN 200 ELSE 500

\* The handler up to the end of its await: id = Date.now(), and the INSERT,
\* which the store executes (ok) or rejects (~ok).
CreateRequest(body, ok) ==
  /\ phase = "running"
  /\ UNCHANGED fileVars
  /\ listening
  /\ nextId <= MaxEvents
  /\ nextId' = nextId + 1
  /\ db' = IF ok THEN With(db, nextId, InsertRow(body)) ELSE db
  /\ creq' = creq \cup {[id |-> nextId, body |-> body, ok |-> ok]}
  /\ UNCHANGED << now, phase, listening, restarts, timers, timeouts, pass, dreq,
                  sending, updating >>
  /\ UNCHANGED history

\* The handler after its await: scheduleReminder(ev) and res.json, or the
\* catch and res.status(500).
CreateReturn(r) ==
  /\ r \in creq
  /\ UNCHANGED fileVars
  /\ creq' = creq \ {r}
  /\ LET reg == IF r.ok
                  THEN scheduleReminder(Registry, EvOf(r.id, r.body))
                  ELSE Registry
     IN /\ timers' = reg.timers
        /\ timeouts' = reg.timeouts
  /\ UNCHANGED << now, phase, listening, restarts, db, nextId, pass, dreq,
                  sending, updating >>
  /\ UNCHANGED history

\* ---------------------------------------------------- DELETE /events/:id
\* A cancel without "delete timers[id]".
cancelTimer_KeepsEntry(reg, id) ==
  IF id \in DOMAIN reg.timers
    THEN [ timers |-> reg.timers,
           timeouts |-> clearTimeout(reg.timeouts, reg.timers[id]) ]
    ELSE reg

\* if (timers[id]) { clearTimeout(timers[id]); delete timers[id]; }
cancelTimer(reg, id) ==
  IF id \in DOMAIN reg.timers
    THEN [ timers |-> Without(reg.timers, id),
           timeouts |-> clearTimeout(reg.timeouts, reg.timers[id]) ]
    ELSE reg

\* The handler up to the end of its await: the timer is cancelled, then the
\* DELETE is sent, which the store executes (ok) or rejects (~ok).
DeleteRequest(id, ok) ==
  /\ phase = "running"
  /\ UNCHANGED fileVars
  /\ listening
  /\ id < nextId
  /\ dreq[id] = "none"
  /\ UNCHANGED atRestart
  /\ LET reg == cancelTimer(Registry, id)
     IN /\ timers' = reg.timers
        /\ timeouts' = reg.timeouts
  /\ db' = IF ok THEN Without(db, id) ELSE db
  /\ dreq' = [dreq EXCEPT ![id] = IF ok THEN "ok" ELSE "fail"]
  /\ delEarly' = IF ok /\ id \in DOMAIN db /\ now < SendAt(db[id])
                   THEN delEarly \cup {id}
                   ELSE delEarly
  /\ delInFlight' = IF ok /\ id \in DOMAIN db /\ sending[id] > 0
                      THEN delInFlight \cup {id}
                      ELSE delInFlight
  /\ UNCHANGED << now, phase, listening, restarts, nextId, pass, creq, sending,
                  updating, attempts, succeeded, logged >>

\* The handler after its await: res.json({ok: true}), or the catch and
\* res.status(500).
DeleteReturn(id) ==
  /\ dreq[id] # "none"
  /\ UNCHANGED fileVars
  /\ dreq' = [dreq EXCEPT ![id] = NoDelete]
  /\ UNCHANGED << now, phase, listening, restarts, db, nextId, timers, timeouts,
                  pass, creq, sending, updating >>
  /\ UNCHANGED history

\* ------------------------------------------------ the setTimeout callback
\* A Timeout whose delay has passed fires: the callback runs up to
\* await resend.emails.send(...).
TimerFire(t) ==
  /\ t \in timeouts
  /\ UNCHANGED fileVars
  /\ t.fireAt <= now
  /\ UNCHANGED atRestart
  /\ timeouts' = timeouts \ {t}
  /\ sending' = [sending EXCEPT ![t.id] = @ + 1]
  /\ attempts' = [attempts EXCEPT ![t.id] = @ + 1]
  /\ UNCHANGED << now, phase, listening, restarts, db, nextId, timers, pass,
                  creq, dreq, updating, succeeded, delEarly, delInFlight,
                  logged >>

\* The send resolves: the callback goes on to await the UPDATE.
SendOk(id) ==
  /\ sending[id] > 0
  /\ UNCHANGED fileVars
  /\ UNCHANGED atRestart
  /\ sending' = [sending EXCEPT ![id] = @ - 1]
  /\ updating' = [updating EXCEPT ![id] = @ + 1]
  /\ succeeded' = [succeeded EXCEPT ![id] = @ + 1]
  /\ UNCHANGED << now, phase, listening, restarts, db, nextId, timers, timeouts,
                  pass, creq, dreq, attempts, delEarly, delInFlight, logged >>

\* UPDATE events SET reminded = true WHERE id = $1: no row, no change.
markReminded(table, id) ==
  IF id \in DOMAIN table
    THEN [table EXCEPT ![id].reminded = TRUE]
    ELSE table

\* A catch block that marks the event reminded all the same.
catchTable_Marks(table, id) == markReminded(table, id)

\* What the catch block does to the table: it only logs.
catchTable(table, id) == table

\* A catch block that also runs delete timers[ev.id].
catchTimers_Deletes(tm, id) == Without(tm, id)

\* What the catch block does to timers: nothing, the entry stays.
catchTimers(tm, id) == tm

\* The send rejects: catch(e) logs, and the callback ends.
SendFail(id) ==
  /\ sending[id] > 0
  /\ UNCHANGED fileVars
  /\ UNCHANGED atRestart
  /\ sending' = [sending EXCEPT ![id] = @ - 1]
  /\ db' = catchTable(db, id)
  /\ timers' = catchTimers(timers, id)
  /\ logged' = [logged EXCEPT ![id] = "error"]
  /\ UNCHANGED << now, phase, listening, restarts, nextId, timeouts, pass, creq,
                  dreq, updating, attempts, succeeded, delEarly, delInFlight >>

\* The UPDATE succeeds: the log line and delete timers[ev.id].
UpdateOk(id) ==
  /\ updating[id] > 0
  /\ UNCHANGED fileVars
  /\ UNCHANGED atRestart
  /\ updating' = [updating EXCEPT ![id] = @ - 1]
  /\ db' = markReminded(db, id)
  /\ timers' = Without(timers, id)
  /\ logged' = [logged EXCEPT ![id] = "sent"]
  /\ UNCHANGED << now, phase, listening, restarts, nextId, timeouts, pass, creq,
                  dreq, sending, attempts, succeeded, delEarly, delInFlight >>

\* The UPDATE rejects: catch(e) logs, timers[ev.id] stays.
UpdateFail(id) ==
  /\ updating[id] > 0
  /\ UNCHANGED fileVars
  /\ UNCHANGED atRestart
  /\ updating' = [updating EXCEPT ![id] = @ - 1]
  /\ db' = catchTable(db, id)
  /\ timers' = catchTimers(timers, id)
  /\ logged' = [logged EXCEPT ![id] = "error"]
  /\ UNCHANGED << now, phase, listening, restarts, nextId, timeouts, pass, creq,
                  dreq, sending, attempts, succeeded, delEarly, delInFlight >>

\* ------------------------------------------------------------------- Next
Next ==
  \/ InitDBDone
  \/ InitDBFail
  \/ PassQueryOk
  \/ PassQueryFail
  \/ PassSchedule
  \/ Restart
  \/ Tick
  \/ \E body \in Bodies, ok \in BOOLEAN : CreateRequest(body, ok)
  \/ \E r \in creq : CreateReturn(r)
  \/ \E id \in Ids, ok \in BOOLEAN : DeleteRequest(id, ok)
  \/ \E id \in Ids : DeleteReturn(id)
  \/ \E t \in timeouts : TimerFire(t)
  \/ \E id \in Ids : SendOk(id)
  \/ \E id \in Ids : SendFail(id)
  \/ \E id \in Ids : UpdateOk(id)
  \/ \E id \in Ids : UpdateFail(id)

Spec == Init /\ [][Next]_vars

TypeOK ==
  /\ now \in 0..MaxTime
  /\ phase \in {"initdb", "running", "failed"}
  /\ listening \in BOOLEAN
  /\ DOMAIN db \subseteq Ids
  /\ DOMAIN timers \subseteq Ids
  /\ \A t \in timeouts : t.handle \in Handles /\ t.id \in Ids

\* -------------------------------------- the file-backed variant: steps
\* app.post('/events'): push the new object, save, respond.
FilePost(body) ==
  /\ fileNextId <= MaxEvents
  /\ UNCHANGED vars
  /\ events' = Append(events, fileNextId)
  /\ objs' = With(objs, fileNextId,
                  [ datetime |-> body.datetime,
                    reminderHours |-> body.reminderHours,
                    reminded |-> FALSE ])
  /\ eventsJson' = save(events', objs')
  /\ fileNextId' = fileNextId + 1
  /\ UNCHANGED << cronNow, ticks, fileRestarts, fileSucceeded >>

\* app.delete('/events/:id'): events becomes a new array, then save.  The
\* callbacks in their loop keep the array they started on.
FileDelete(id) ==
  /\ events' = filter(events, id)
  /\ UNCHANGED vars
  /\ ticks' = { IF tk.live THEN [tk EXCEPT !.live = FALSE, !.arr = events]
                           ELSE tk : tk \in ticks }
  /\ eventsJson' = save(events', objs)
  /\ UNCHANGED << objs, cronNow, fileNextId, fileRestarts, fileSucceeded >>

\* cron.schedule('0 * * * *', ...): the next hour begins and the callback
\* runs its loop up to its first await, or to its end (changed is false,
\* nothing is saved).
CronTick ==
  /\ cronNow < MaxTime
  /\ UNCHANGED vars
  /\ cronNow' = cronNow + 1
  /\ LET j == NextDue(events, 1, cronNow', objs)
     IN  ticks' =
           IF j = 0
             THEN ticks
             ELSE ticks \cup { [ start |-> cronNow', live |-> TRUE,
                                 arr |-> << >>, i |-> j, changed |-> FALSE ] }
  /\ UNCHANGED << events, objs, eventsJson, fileNextId, fileRestarts,
                  fileSucceeded >>

\* await resend.emails.send(...) resolves: ev.reminded = true, changed =
\* true, and the loop goes on to its next await or to "if (changed) save()".
FileSendOk(tk) ==
  LET id == ArrOf(tk)[tk.i]
      heap == [objs EXCEPT ![id].reminded = TRUE]
      j == NextDue(ArrOf(tk), tk.i + 1, tk.start, heap)
  IN  /\ objs' = heap
      /\ UNCHANGED vars
      /\ fileSucceeded' = [fileSucceeded EXCEPT ![id] = @ + 1]
      /\ IF j = 0
           THEN /\ ticks' = ticks \ {tk}
                /\ eventsJson' = save(events, heap)
           ELSE /\ ticks' = (ticks \ {tk})
                               \cup { [tk EXCEPT !.i = j, !.changed = TRUE] }
                /\ UNCHANGED eventsJson
      /\ UNCHANGED << events, cronNow, fileNextId, fileRestarts >>

\* await resend.emails.send(...) rejects: the callback has no try/catch,
\* its promise rejects and the rest of the loop and the save are not run.
FileSendThrow(tk) ==
  /\ ticks' = ticks \ {tk}
  /\ UNCHANGED vars
  /\ UNCHANGED << events, objs, eventsJson, cronNow, fileNextId,
                  fileRestarts, fileSucceeded >>

\* The process ends and starts again: events is read from events.json, the
\* running callbacks are gone.
FileRestart ==
  /\ fileRestarts < MaxRestarts
  /\ UNCHANGED vars
  /\ fileRestarts' = fileRestarts + 1
  /\ events' = parseArray(eventsJson)
  /\ objs' = parseObjects(eventsJson)
  /\ ticks' = {}
  /\ UNCHANGED << eventsJson, cronNow, fileNextId, fileSucceeded >>

FileNext ==
  \/ \E body \in FileBodies : FilePost(body)
  \/ \E id \in Ids : FileDelete(id)
  \/ CronTick
  \/ \E tk \in ticks : FileSendOk(tk)
  \/ \E tk \in ticks : FileSendThrow(tk)
  \/ FileRestart

SpecFile == Init /\ [][FileNext]_fileVars

\* The sends in flight for an id: the callbacks awaiting its send.
FileSending(id) == Cardinality({ tk \in ticks : ArrOf(tk)[tk.i] = id })

\* ----------------------------------------------------------------- claims
Pending(active, id) == { t \in active : t.id = id }

\* C1: over creates, deletes, timer expiries, Sender successes and failures,
\* failed UPDATEs, restarts and the Recovery pass of every start, the Sender
\* reports success for one event at most once.
C1_AtMostOnceDelivery == \A id \in Ids : succeeded[id] <= 1

\* The Sender reported success in an earlier process lifetime, the UPDATE
\* did not reach the table, and the Recovery pass of the next start has run
\* over the still unreminded row.
C1_Witness ==
  \E id \in DOMAIN db :
    /\ succeeded[id] = 1
    /\ attempts[id] = 0
    /\ ~db[id].reminded
    /\ restarts = 1
    /\ pass.pc = "done"

\* C2: an unreminded event whose sendAt is at or before now when
\* scheduleReminder runs for it, in POST /events or in Recovery, gets a timer
\* that is due at once (the delay clamps to 0); it is not skipped.
C2_PastDueNeverSkipped ==
  [][ /\ \A r \in creq \ creq' :
           (restarts' = restarts /\ r.ok /\ SendAt(EvOf(r.id, r.body)) <= now)
             => \E t \in Pending(timeouts', r.id) : t.fireAt <= now
      /\ (pass.pc = "rows" /\ pass'.pc = "done")
           => \A row \in pass.rows :
                SendAt(row) <= now
                  => \E t \in Pending(timeouts', row.id) : t.fireAt <= now ]_vars

\* C3: when the Sender fails for an event that is still in the table and
\* fewer than MAX_ATTEMPTS attempts were made in this process lifetime, a new
\* timer for a further attempt is registered.
C3_RetryAfterFailure ==
  [][ \A id \in DOMAIN db :
        ( /\ sending'[id] < sending[id]
          /\ updating' = updating
          /\ restarts' = restarts
          /\ attempts[id] < MAX_ATTEMPTS )
          => Pending(timeouts', id) # {} ]_vars

\* C4: once an event is deleted before its fire time, no Sender call for it
\* starts, under every interleaving of the delete with creation, timer
\* registration and a Recovery pass in progress.
C4_DeleteCancelsDelivery ==
  [][ \A id \in delEarly : sending'[id] <= sending[id] ]_vars

\* C5: at most one pending timer per event id, and every scheduleReminder
\* call for an id cancels the timer pending for it, whatever fire time the
\* call computes.
C5_OneTimerPerEvent ==
  [][ /\ \A id \in Ids : Cardinality(Pending(timeouts', id)) <= 1
      /\ \A r \in creq \ creq' :
           (restarts' = restarts /\ r.ok)
             => \A t \in Pending(timeouts, r.id) :
                  \A u \in timeouts' : u.handle # t.handle
      /\ (pass.pc = "rows" /\ pass'.pc = "done")
           => \A row \in pass.rows :
                \A t \in Pending(timeouts, row.id) :
                  \A u \in timeouts' : u.handle # t.handle ]_vars

\* C6: when the Sender has failed on every call for an event and nothing
\* more is pending or in flight for it, exactly MAX_ATTEMPTS attempts were
\* made in this process lifetime and the event is not reminded.
C6_RetryBound ==
  \A id \in DOMAIN db :
    ( /\ attempts[id] >= 1
      /\ succeeded[id] = 0
      /\ sending[id] = 0
      /\ Pending(timeouts, id) = {}
      /\ dreq[id] = "none" )
      => attempts[id] = MAX_ATTEMPTS /\ ~db[id].reminded

\* C7: an event is reminded in the table only if the Sender has reported
\* success for it; a failed send never sets the flag.
C7_RemindedOnlyAfterSuccess ==
  \A id \in DOMAIN db : db[id].reminded => succeeded[id] >= 1

\* An event was delivered and marked, and another event's send failed.
C7_Witness ==
  \E id \in DOMAIN db, other \in DOMAIN db :
    /\ db[id].reminded
    /\ other # id
    /\ attempts[other] = 1
    /\ succeeded[other] = 0
    /\ sending[other] = 0

\* C8: a row is inserted with reminded = false, and a row that is reminded
\* stays reminded for as long as it is in the table.
C8_RemindedMonotonic ==
  [][ /\ \A id \in DOMAIN db' \ DOMAIN db : ~db'[id].reminded
      /\ \A id \in DOMAIN db \cap DOMAIN db' :
           db[id].reminded => db'[id].reminded ]_vars

\* A row reminded in an earlier process lifetime has lived through a
\* restart and its Recovery pass.
C8_Witness ==
  \E id \in DOMAIN db :
    /\ db[id].reminded
    /\ attempts[id] = 0
    /\ restarts = 1
    /\ pass.pc = "done"

\* C9: an event posted with datetime d and an explicit reminderHours h, 0
\* included, whose d - h is still ahead, gets a timer that fires at d - h;
\* the default of 24 hours applies only to a body without reminderHours.
C9_FireTime ==
  [][ \A r \in creq \ creq' :
        LET lead == IF r.body.given
                      THEN r.body.reminderHours
                      ELSE DEFAULT_REMINDER_HOURS
        IN (restarts' = restarts /\ r.ok /\ r.body.datetime - lead > now)
             => \E t \in Pending(timeouts', r.id) :
                  t.fireAt = r.body.datetime - lead ]_vars

\* C10: a create whose INSERT fails and a delete whose DELETE fails answer
\* with a failure and leave the table and the timers as they were before the
\* request.
C10_NoPartialState ==
  [][ /\ \A r \in creq' \ creq :
           ~r.ok => db' = db /\ timers' = timers /\ timeouts' = timeouts
      /\ \A r \in creq \ creq' :
           (restarts' = restarts /\ ~r.ok)
             => /\ Status(r.ok) = 500
                /\ db' = db /\ timers' = timers /\ timeouts' = timeouts
      /\ \A id \in Ids :
           (dreq[id] = "none" /\ dreq'[id] = "fail")
             => /\ Status(FALSE) = 500
                /\ db' = db /\ timers' = timers /\ timeouts' = timeouts ]_vars

\* C11: when the startup query for unreminded events fails, the process is
\* not accepting requests, before or after: app.listen is never reached.
C11_QueryFailureIsFatal ==
  [][ (pass.pc = "query" /\ pass'.pc = "failed")
        => (~listening /\ ~listening') ]_vars

\* C13: a create or delete request is processed only after the startup
\* Recovery pass has queried the store and registered its timers.
C13_RecoveryBeforeRequests ==
  [][ ( \/ creq' \ creq # {}
        \/ \E id \in Ids : dreq[id] = "none" /\ dreq'[id] # "none" )
        => pass.pc = "done" ]_vars

\* C14: the table outlives a restart, the Recovery query returns every
\* unreminded row, and when Recovery completes every event that was in the
\* table at the restart and is still there, unreminded, with its sendAt
\* ahead, has exactly one pending timer, due at datetime - reminder_hours of
\* its stored row.
C14_RestartSurvival ==
  [][ /\ restarts' # restarts => db' = db
      /\ (pass.pc = "rows" /\ pass'.pc = "done")
           => \A id \in atRestart \cap DOMAIN db :
                (~db[id].reminded /\ SendAt(db[id]) > now)
                  => /\ Cardinality(Pending(timeouts', id)) = 1
                     /\ \A t \in Pending(timeouts', id) :
                          /\ t.fireAt = db[id].datetime - db[id].reminder_hours
                          /\ id \in DOMAIN timers'
                          /\ timers'[id] = t.handle ]_vars

\* Recovery has completed after a restart, and two events that were in the
\* table at the restart have their timers again.
C14_Witness ==
  /\ restarts = 1
  /\ pass.pc = "done"
  /\ Cardinality(atRestart) = 2
  /\ \A id \in atRestart :
       /\ id \in DOMAIN db
       /\ ~db[id].reminded
       /\ SendAt(db[id]) > now
       /\ Pending(timeouts, id) # {}

\* C16: when the send succeeded and the UPDATE that follows fails, the row
\* stays reminded = false, the attempt is logged as an error, and the
\* success path is not taken: the table and the timers entry are untouched.
C16_UpdateFailureNotDelivered ==
  [][ \A id \in Ids :
        (updating'[id] < updating[id] /\ restarts' = restarts)
          => /\ (id \in DOMAIN db /\ ~db'[id].reminded)
                  => (logged'[id] = "error" /\ db' = db /\ timers' = timers)
             /\ logged'[id] = "error" => (db' = db /\ timers' = timers)
             /\ logged'[id] \in {"error", "sent"} ]_vars

\* The Sender reported success, the UPDATE failed, the callback has ended:
\* the row is unreminded, the error is logged and the timers entry is there.
C16_Witness ==
  \E id \in DOMAIN db :
    /\ succeeded[id] = 1
    /\ attempts[id] = 1
    /\ sending[id] = 0
    /\ updating[id] = 0
    /\ ~db[id].reminded
    /\ logged[id] = "error"
    /\ id \in DOMAIN timers

\* C17: an event deleted while its send is awaiting stays out of the table,
\* has no timers entry and no pending timer, gets no further attempt, and
\* the UPDATE of its missing row, when it succeeds, changes nothing.
C17_DeleteInFlightBenign ==
  [][ \A id \in delInFlight' :
        /\ id \notin DOMAIN db'
        /\ id \notin DOMAIN timers'
        /\ Pending(timeouts', id) = {}
        /\ sending'[id] + updating'[id] <= 1
        /\ attempts'[id] <= 1
        /\ (updating'[id] < updating[id] /\ logged'[id] = "sent") => db' = db
    ]_vars

\* The send of an event deleted in flight has resolved and its callback has
\* ended on the success path.
C17_Witness ==
  \E id \in delInFlight :
    /\ succeeded[id] = 1
    /\ sending[id] = 0
    /\ updating[id] = 0
    /\ logged[id] = "sent"

\* C19: whenever no delivery callback is executing for an id, its entry in
\* timers, if any, is a Timeout that has not fired; after an attempt has
\* ended, in success or failure, timers holds no entry for the id.
C19_TimerRegistryHygiene ==
  \A id \in DOMAIN timers :
    (sending[id] = 0 /\ updating[id] = 0)
      => \E t \in timeouts : t.handle = timers[id]

\* C12: in the file-backed variant, over cron ticks (overlapping ones and
\* ones aborted by a throwing send included), creates, deletes and restarts
\* that reload events.json, the Sender succeeds at most once per event.
C12_CronAtMostOnce == \A id \in Ids : fileSucceeded[id] <= 1

\* C15: a delivery attempt that fails does not take away the attempt of a
\* different event due at the same tick: when a cron callback ends on a
\* throwing send, no later element of its array is unreminded and due.
C15_Independence ==
  [][ \A tk \in ticks :
        ( /\ ticks' = ticks \ {tk}
          /\ fileRestarts' = fileRestarts
          /\ objs' = objs
          /\ events' = events
          /\ eventsJson' = eventsJson
          /\ cronNow' = cronNow )
          => NextDue(ArrOf(tk), tk.i + 1, tk.start, objs) = 0 ]_fileVars

\* C18: at no time are two Sender calls for the same event in flight.
C18_SequentialAttempts == \A id \in Ids : FileSending(id) <= 1

\* C20: whenever no cron callback is in its loop (the request handlers are
\* synchronous), events.json holds the in-memory events array, reminded
\* flags included.
C20_FileMirrorsMemory == ticks = {} => eventsJson = stringify(events, objs)

====
